---- MODULE Spec2Model ----
(***************************************************************************)
(* Session aggregation of the PurrView worker: the per-cat SessionTracker  *)
(* (apps/worker/src/tracker.py) that groups timestamped analysis results   *)
(* into feeding/drinking sessions.                                          *)
(*                                                                         *)
(* self.sessions is a Python dict, which keeps insertion order: it is      *)
(* modelled as a sequence of [key, val] entries with unique keys.          *)
(* Timestamps are integers of a bounded range; frame metadata is a small   *)
(* set of values, None and the (falsy) empty dict among them.              *)
(***************************************************************************)
EXTENDS Integers, Sequences, FiniteSets, TLC

\* ------------------------------------------------------------------ bounds
\* timestamps are 0..MaxTime
MaxTime == 1

\* the idle_timeout the tracker is constructed with (scaled down)
IdleTimeout == 0

\* a session's frame list is allowed to grow to MaxFrames entries
MaxFrames == 1

\* --------------------------------------------------------------- constants
EATING == "eating"

DRINKING == "drinking"

PRESENT == "present"

Activity == {EATING, DRINKING, PRESENT}

CatNames == {"c1", "c2"}

Time == 0..MaxTime

NoFrameInfo == "None"

EmptyDict == "{}"

FrameInfos == {NoFrameInfo, EmptyDict, "f1"}

\* one entry of IdentifyResult.cats
CatActivity == [name : CatNames, activity : Activity]

RECURSIVE SeqsUpTo(_, _)
SeqsUpTo(S, n) ==
    IF n = 0 THEN {<<>>}
    ELSE LET shorter == SeqsUpTo(S, n - 1)
         IN  shorter \cup {Append(q, x) : q \in {r \in shorter : Len(r) = n - 1}, x \in S}

\* the values of result.cats: any list of at most as many entries as there are
\* cats, an entity possibly named twice
CatLists == SeqsUpTo(CatActivity, Cardinality(CatNames))

\* ------------------------------------------------------------------- state
\* idle_timeout, sessions: the fields of SessionTracker
\* completed:  the list the last call returned, until the caller takes it
\* lastOp:     the call that returned it and its arguments
\* pre:        self.sessions as it was when that call began
\* clock:      the highest timestamp applied to the tracker so far
VARIABLES idle_timeout, sessions, completed, lastOp, pre, clock

\* the tracker and the record of its last call
trackerVars == <<idle_timeout, sessions, completed, lastOp, pre, clock>>

\* pc:    where the caller stands: "tracker" (calls arrive), "stalled" (the
\*        feed has stopped, only the idle sweeper runs), or a place in replay()
\* seen:  per entity, the timestamp of the latest observation naming it
\*        (-1: none yet); kept by the live feed only
VARIABLES pc, seen

liveVars == <<pc, seen>>

\* the locals of replay(): the archive file, the limit argument, entries,
\* the loop position, last_call, errors and all_completed; calls is the list
\* of the calls of analyze_frame, opened the list of the sessions the tracker
\* created
VARIABLES archive, limit, entries, idx, last_call, errors, all_completed, calls, opened

replayVars == <<archive, limit, entries, idx, last_call, errors, all_completed, calls, opened>>

vars == <<idle_timeout, sessions, completed, lastOp, pre, clock, pc, seen,
          archive, limit, entries, idx, last_call, errors, all_completed, calls, opened>>

\* ------------------------------------------------- the dict self.sessions
Keys(d) == {d[i].key : i \in 1..Len(d)}

Has(d, name) == \E i \in 1..Len(d) : d[i].key = name

Get(d, name) == d[CHOOSE i \in 1..Len(d) : d[i].key = name].val

RECURSIVE DictDel(_, _)
DictDel(d, name) ==
    IF d = <<>> THEN <<>>
    ELSE IF Head(d).key = name THEN DictDel(Tail(d), name)
    ELSE <<Head(d)>> \o DictDel(Tail(d), name)

\* self.sessions[name] = session: replaces the value of a key the dict
\* holds, appends a new key at the end
DictSet_Append(d, name, session) == Append(d, [key |-> name, val |-> session])

DictSet(d, name, session) ==
    IF Has(d, name)
    THEN [i \in 1..Len(d) |-> IF d[i].key = name THEN [key |-> name, val |-> session] ELSE d[i]]
    ELSE Append(d, [key |-> name, val |-> session])

\* ------------------------------------------------------------ on_analysis
\* `if frame_info:` is false for None and for an empty dict
Truthy(frame_info) == frame_info \notin {NoFrameInfo, EmptyDict}

IsEngaged_PresentToo(activity) == activity \in {EATING, DRINKING, PRESENT}

IsEngaged_AnyActivity(activity) == activity \in Activity

IsEngaged(activity) == activity \in {EATING, DRINKING}

ActivityChanged_Never(existing, activity) == FALSE

ActivityChanged(existing, activity) == existing.activity # activity

NewSession_AlwaysFrame(name, activity, timestamp, frame_info) ==
    [cat_name |-> name, activity |-> activity,
     started_at |-> timestamp, last_seen_at |-> timestamp,
     frames |-> <<frame_info>>]

NewSession_EpochStart(name, activity, timestamp, frame_info) ==
    [cat_name |-> name, activity |-> activity,
     started_at |-> 0, last_seen_at |-> timestamp,
     frames |-> IF Truthy(frame_info) THEN <<frame_info>> ELSE <<>>]

NewSession(name, activity, timestamp, frame_info) ==
    [cat_name |-> name, activity |-> activity,
     started_at |-> timestamp, last_seen_at |-> timestamp,
     frames |-> IF Truthy(frame_info) THEN <<frame_info>> ELSE <<>>]

ContinueSession_NoFrame(existing, timestamp, frame_info) ==
    [existing EXCEPT !.last_seen_at = timestamp]

ContinueSession_Restart(existing, timestamp, frame_info) ==
    [existing EXCEPT !.started_at = timestamp,
                     !.frames = IF Truthy(frame_info) THEN Append(@, frame_info) ELSE @]

ContinueSession_Prepend(existing, timestamp, frame_info) ==
    [existing EXCEPT !.last_seen_at = timestamp,
                     !.frames = IF Truthy(frame_info) THEN <<frame_info>> \o @ ELSE @]

ContinueSession(existing, timestamp, frame_info) ==
    [existing EXCEPT !.last_seen_at = timestamp,
                     !.frames = IF Truthy(frame_info) THEN Append(@, frame_info) ELSE @]

KeepAlive_LogsFrame(existing, timestamp, frame_info) ==
    [existing EXCEPT !.last_seen_at = timestamp,
                     !.frames = IF Truthy(frame_info) THEN Append(@, frame_info) ELSE @]

KeepAlive_NoTouch(existing, timestamp, frame_info) == existing

KeepAlive(existing, timestamp, frame_info) ==
    [existing EXCEPT !.last_seen_at = timestamp]

\* `completed.append(existing)` on an activity change: the session as it is
ClosedOnChange_Touched(existing, timestamp) ==
    [existing EXCEPT !.last_seen_at = timestamp]

ClosedOnChange(existing, timestamp) == existing

\* the body of `for cat in result.cats`; st = [sessions, completed]
ProcessCat(st, cat, timestamp, frame_info) ==
    LET name == cat.name
        activity == cat.activity
        had == Has(st.sessions, name)
        changed == IsEngaged(activity) /\ had
                   /\ ActivityChanged(Get(st.sessions, name), activity)
        st1 == IF changed
               THEN [sessions |-> DictDel(st.sessions, name),
                     completed |-> Append(st.completed,
                                      ClosedOnChange(Get(st.sessions, name), timestamp))]
               ELSE st
        existing == had /\ ~changed
    IN  IF IsEngaged(activity)
        THEN IF existing
             THEN [st1 EXCEPT !.sessions = DictSet(@, name,
                      ContinueSession(Get(st1.sessions, name), timestamp, frame_info))]
             ELSE [st1 EXCEPT !.sessions = DictSet(@, name,
                      NewSession(name, activity, timestamp, frame_info))]
        ELSE IF activity = PRESENT /\ had
             THEN [st1 EXCEPT !.sessions = DictSet(@, name,
                      KeepAlive(Get(st1.sessions, name), timestamp, frame_info))]
             ELSE st1

\* `return completed` inside the loop body
ProcessCats_FirstOnly(st, cats, timestamp, frame_info) ==
    IF cats = <<>> THEN st ELSE ProcessCat(st, Head(cats), timestamp, frame_info)

RECURSIVE ProcessCats(_, _, _, _)
ProcessCats(st, cats, timestamp, frame_info) ==
    IF cats = <<>> THEN st
    ELSE ProcessCats(ProcessCat(st, Head(cats), timestamp, frame_info),
                     Tail(cats), timestamp, frame_info)

RECURSIVE DropAbsent(_, _)
DropAbsent(d, cats) ==
    IF d = <<>> THEN <<>>
    ELSE IF \E i \in 1..Len(cats) : cats[i].name = Head(d).key
         THEN <<Head(d)>> \o DropAbsent(Tail(d), cats)
         ELSE DropAbsent(Tail(d), cats)

OnAnalysisResult_DropAbsent(d, cats, timestamp, frame_info) ==
    LET st == ProcessCats([sessions |-> d, completed |-> <<>>], cats, timestamp, frame_info)
    IN  [st EXCEPT !.sessions = DropAbsent(@, cats)]

\* SessionTracker.on_analysis: the open map and the returned list
OnAnalysisResult(d, cats, timestamp, frame_info) ==
    ProcessCats([sessions |-> d, completed |-> <<>>], cats, timestamp, frame_info)

\* -------------------------------------------------------------- check_idle
Expired_AtTimeout(session, now, timeout) == (now - session.last_seen_at) >= timeout

Expired_Reversed(session, now, timeout) == (session.last_seen_at - now) > timeout

Expired(session, now, timeout) == (now - session.last_seen_at) > timeout

\* check_idle without `del self.sessions[name]`
CheckIdleResult_NoDel(d, now, timeout) ==
    [sessions |-> d,
     completed |-> LET IsOut(x) == Expired(x.val, now, timeout)
                       out == SelectSeq(d, IsOut)
                   IN  [i \in 1..Len(out) |-> out[i].val]]

\* `for name in list(self.sessions)`: in the dict's order
RECURSIVE CheckIdleResult(_, _, _)
CheckIdleResult(d, now, timeout) ==
    IF d = <<>> THEN [sessions |-> <<>>, completed |-> <<>>]
    ELSE LET rest == CheckIdleResult(Tail(d), now, timeout)
         IN  IF Expired(Head(d).val, now, timeout)
             THEN [rest EXCEPT !.completed = <<Head(d).val>> \o @]
             ELSE [rest EXCEPT !.sessions = <<Head(d)>> \o @]

\* ------------------------------------------------------------------ actions
FramesBounded(d) == \A i \in 1..Len(d) : Len(d[i].val.frames) <= MaxFrames

NoCall == [op |-> "none", timestamp |-> 0, cats |-> <<>>, frame_info |-> NoFrameInfo]

Max(a, b) == IF a >= b THEN a ELSE b

\* a tracker as constructed
InitTracker ==
    /\ idle_timeout = IdleTimeout
    /\ sessions = <<>>
    /\ completed = <<>>
    /\ lastOp = NoCall
    /\ pre = <<>>
    /\ clock = 0

\* no replay is running
NoReplay ==
    /\ archive = <<>>
    /\ limit = 0
    /\ entries = <<>>
    /\ idx = 0
    /\ last_call = 0
    /\ errors = 0
    /\ all_completed = <<>>
    /\ calls = <<>>
    /\ opened = <<>>

Init ==
    /\ InitTracker
    /\ pc = "tracker"
    /\ seen = [e \in CatNames |-> -1]
    /\ NoReplay

on_analysis(cats, timestamp, frame_info) ==
    LET r == OnAnalysisResult(sessions, cats, timestamp, frame_info)
    IN  /\ lastOp.op = "none"
        /\ FramesBounded(r.sessions)
        /\ sessions' = r.sessions
        /\ completed' = r.completed
        /\ lastOp' = [op |-> "on_analysis", timestamp |-> timestamp,
                      cats |-> cats, frame_info |-> frame_info]
        /\ pre' = sessions
        /\ clock' = Max(clock, timestamp)
        /\ UNCHANGED idle_timeout

check_idle(now) ==
    LET r == CheckIdleResult(sessions, now, idle_timeout)
    IN  /\ lastOp.op = "none"
        /\ sessions' = r.sessions
        /\ completed' = r.completed
        /\ lastOp' = [op |-> "check_idle", timestamp |-> now,
                      cats |-> <<>>, frame_info |-> NoFrameInfo]
        /\ pre' = sessions
        /\ clock' = Max(clock, now)
        /\ UNCHANGED idle_timeout

\* the caller takes the returned list; the tracker keeps no reference to it
TakeCompleted ==
    /\ lastOp.op # "none"
    /\ completed' = <<>>
    /\ lastOp' = NoCall
    /\ pre' = <<>>
    /\ UNCHANGED <<idle_timeout, sessions, clock>>

\* any caller: the tracker itself checks no ordering of the timestamps
Next ==
    \/ /\ \E cats \in CatLists, timestamp \in Time, frame_info \in FrameInfos :
             on_analysis(cats, timestamp, frame_info)
       /\ UNCHANGED <<liveVars, replayVars>>
    \/ /\ \E now \in Time : check_idle(now)
       /\ UNCHANGED <<liveVars, replayVars>>
    \/ /\ TakeCompleted
       /\ UNCHANGED <<liveVars, replayVars>>

Spec == Init /\ [][Next]_vars

\* a caller that applies the calls in nondecreasing timestamp order
NextMono ==
    \/ /\ \E cats \in CatLists, timestamp \in Time, frame_info \in FrameInfos :
             timestamp >= clock /\ on_analysis(cats, timestamp, frame_info)
       /\ UNCHANGED <<liveVars, replayVars>>
    \/ /\ \E now \in Time : now >= clock /\ check_idle(now)
       /\ UNCHANGED <<liveVars, replayVars>>
    \/ /\ TakeCompleted
       /\ UNCHANGED <<liveVars, replayVars>>

SpecMono == Init /\ [][NextMono]_vars

\* ---------------------------------------------- the live feed and the sweeper
\* the names an observation mentions
Named(cats) == {cats[i].name : i \in 1..Len(cats)}

\* an observation of the live feed, in timestamp order
Observe(cats, timestamp) ==
    /\ pc = "tracker"
    /\ timestamp >= clock
    /\ on_analysis(cats, timestamp, NoFrameInfo)
    /\ seen' = [e \in CatNames |-> IF e \in Named(cats) THEN timestamp ELSE seen[e]]
    /\ UNCHANGED <<pc, replayVars>>

\* a periodic idle check while the feed is live
LiveSweep(now) ==
    /\ pc = "tracker"
    /\ now >= clock
    /\ check_idle(now)
    /\ UNCHANGED <<liveVars, replayVars>>

\* the feed stalls: no observation arrives any more
Stall ==
    /\ pc = "tracker"
    /\ pc' = "stalled"
    /\ UNCHANGED <<trackerVars, seen, replayVars>>

\* the sweeper's clock runs to the first instant at which every session that
\* can exist has been idle for longer than idle_timeout
SweepHorizon == MaxTime + IdleTimeout + 1

\* the idle sweeper's next tick after the stall, on an advancing clock
Sweep ==
    /\ pc = "stalled"
    /\ clock < SweepHorizon
    /\ check_idle(clock + 1)
    /\ UNCHANGED <<liveVars, replayVars>>

Collect ==
    /\ TakeCompleted
    /\ UNCHANGED <<liveVars, replayVars>>

NextLive ==
    \/ \E cats \in CatLists, timestamp \in Time : Observe(cats, timestamp)
    \/ \E now \in Time : LiveSweep(now)
    \/ Stall
    \/ Sweep
    \/ Collect

\* the sweeper runs on a fixed cadence and its caller takes every result
SpecLive == Init /\ [][NextLive]_vars /\ WF_vars(Sweep) /\ WF_vars(Collect)

\* ------------------------------------------ a caller that keeps a report
\* the longest report kept
MaxLog == 2

\* an observation in timestamp order; the caller appends what it returns to
\* its report, as replay() does with all_completed
LogObserve(cats, timestamp) ==
    /\ timestamp >= clock
    /\ on_analysis(cats, timestamp, NoFrameInfo)
    /\ Len(all_completed) + Len(completed') <= MaxLog
    /\ all_completed' = all_completed \o completed'
    /\ UNCHANGED <<liveVars, archive, limit, entries, idx, last_call, errors, calls, opened>>

\* an idle check in timestamp order, reported the same way
LogSweep(now) ==
    /\ now >= clock
    /\ check_idle(now)
    /\ Len(all_completed) + Len(completed') <= MaxLog
    /\ all_completed' = all_completed \o completed'
    /\ UNCHANGED <<liveVars, archive, limit, entries, idx, last_call, errors, calls, opened>>

NextLog ==
    \/ \E cats \in CatLists, timestamp \in Time : LogObserve(cats, timestamp)
    \/ \E now \in Time : LogSweep(now)
    \/ Collect

SpecLog == Init /\ [][NextLog]_vars

\* ------------------------------------------------------- reading a call
Called(op) == lastOp.op = op

\* the positions of lastOp.cats that name entity e
Listed(e) == {i \in 1..Len(lastOp.cats) : lastOp.cats[i].name = e}

\* the call reports e once, with activity a
ReportedOnce(e, a) ==
    /\ Called("on_analysis")
    /\ Cardinality(Listed(e)) = 1
    /\ \A i \in Listed(e) : lastOp.cats[i].activity = a

\* the call reports e (once or repeatedly) and only as present
ReportedPassive(e) ==
    /\ Called("on_analysis")
    /\ Listed(e) # {}
    /\ \A i \in Listed(e) : lastOp.cats[i].activity = PRESENT

\* the positions of the returned list that hold a session of entity e
CompletedOf(e) == {i \in 1..Len(completed) : completed[i].cat_name = e}

\* the open sessions whose cat_name is e
OpenOf(e) == {i \in 1..Len(sessions) : sessions[i].val.cat_name = e}

ExpiredKeys == {e \in Keys(pre) : (lastOp.timestamp - Get(pre, e).last_seen_at) > idle_timeout}

\* ------------------------------------------------------------------ claims

\* C1: in every state reached by on_analysis and check_idle calls applied in
\* nondecreasing timestamp order, each entity has at most one open session,
\* and every open session is stored under its own cat_name.
C1_OneOpenSessionPerEntity ==
    /\ \A e \in CatNames : Cardinality(OpenOf(e)) <= 1
    /\ \A i \in 1..Len(sessions) : sessions[i].key = sessions[i].val.cat_name

\* two entities have an open session each, after a session was continued
C1_Witness ==
    /\ Keys(sessions) = CatNames
    /\ \E e \in CatNames : Has(pre, e) /\ ReportedOnce(e, Get(pre, e).activity)

\* C2: a call that reports E with engaged activity B while E's open session
\* has another engaged activity A returns exactly one session of E, with
\* activity A, and leaves E with an open session of activity B.
C2_ActivityTransitionAtomic ==
    \A e \in CatNames : \A b \in {EATING, DRINKING} :
        (ReportedOnce(e, b) /\ Has(pre, e) /\ Get(pre, e).activity # b)
        => /\ Cardinality(CompletedOf(e)) = 1
           /\ \A i \in CompletedOf(e) : completed[i].activity = Get(pre, e).activity
           /\ Has(sessions, e)
           /\ Get(sessions, e).activity = b

C2_Witness ==
    \E e \in CatNames :
        /\ ReportedOnce(e, DRINKING)
        /\ Has(pre, e) /\ Get(pre, e).activity = EATING
        /\ Cardinality(CompletedOf(e)) = 1
        /\ Has(sessions, e) /\ Get(sessions, e).activity = DRINKING

\* C3: check_idle(now) returns, each once, exactly the open sessions with
\* now - last_seen_at > idle_timeout and removes them; every other session
\* (equality included) stays open unchanged, and none is created.
C3_CheckIdleClosesExactlyExpired ==
    Called("check_idle")
    => /\ Keys(sessions) = Keys(pre) \ ExpiredKeys
       /\ \A e \in Keys(sessions) : Get(sessions, e) = Get(pre, e)
       /\ Len(completed) = Cardinality(ExpiredKeys)
       /\ \A e \in ExpiredKeys :
             \E i \in 1..Len(completed) : completed[i] = Get(pre, e)

\* one session is closed while another, seen exactly idle_timeout ago, stays
C3_Witness ==
    /\ Called("check_idle")
    /\ Len(completed) = 1
    /\ \E e \in Keys(sessions) :
          lastOp.timestamp - Get(sessions, e).last_seen_at = idle_timeout

\* C4: a call whose timestamp is lower than the last_seen_at of an open
\* session is rejected: it changes no session and returns nothing, and in
\* particular moves no last_seen_at backwards.  (The tracker has no log, so
\* "rejected or logged" leaves rejection.)
C4_OutOfOrderRejected ==
    (~Called("none") /\ \E e \in Keys(pre) : lastOp.timestamp < Get(pre, e).last_seen_at)
    => /\ sessions = pre
       /\ completed = <<>>
       /\ \A e \in Keys(pre) \cap Keys(sessions) :
             Get(sessions, e).last_seen_at >= Get(pre, e).last_seen_at

\* C5: a passive observation of an entity without an open session opens
\* none and completes none; a call made only of such observations, and an
\* idle check, leave an empty tracker empty.
C5_PassiveNeverStartsSession ==
    /\ \A e \in CatNames :
          (ReportedPassive(e) /\ ~Has(pre, e))
          => ~Has(sessions, e) /\ CompletedOf(e) = {}
    /\ (Called("on_analysis") /\ pre = <<>>
        /\ \A i \in 1..Len(lastOp.cats) : lastOp.cats[i].activity = PRESENT)
       => sessions = <<>> /\ completed = <<>>
    /\ (Called("check_idle") /\ pre = <<>>) => sessions = <<>> /\ completed = <<>>

\* a passive observation of an idle entity, next to another entity's session
C5_Witness ==
    \E e \in CatNames :
        /\ ReportedPassive(e) /\ ~Has(pre, e) /\ ~Has(sessions, e)
        /\ pre # <<>> /\ sessions = pre

\* C6: passive observations of an entity with an open session set the
\* session's last_seen_at to the timestamp and change nothing else of it,
\* and complete no session of that entity.
C6_PassiveOnlyExtends ==
    \A e \in CatNames :
        (ReportedPassive(e) /\ Has(pre, e))
        => /\ Has(sessions, e)
           /\ Get(sessions, e) = [Get(pre, e) EXCEPT !.last_seen_at = lastOp.timestamp]
           /\ CompletedOf(e) = {}

\* a passive observation, with frame metadata, moves last_seen_at forward
C6_Witness ==
    \E e \in CatNames :
        /\ ReportedPassive(e) /\ Has(pre, e) /\ Has(sessions, e)
        /\ Truthy(lastOp.frame_info)
        /\ Get(sessions, e).last_seen_at > Get(pre, e).last_seen_at
        /\ Get(sessions, e).frames = Get(pre, e).frames

\* C7 as stated: an engaged observation of an entity without an open session
\* opens one with started_at = last_seen_at = timestamp, the observed
\* activity and frame list = [the frame metadata], and completes none.
C7_AsClaimed ==
    \A e \in CatNames : \A a \in {EATING, DRINKING} :
        (ReportedOnce(e, a) /\ ~Has(pre, e))
        => /\ Has(sessions, e)
           /\ Get(sessions, e) =
                 [cat_name |-> e, activity |-> a,
                  started_at |-> lastOp.timestamp, last_seen_at |-> lastOp.timestamp,
                  frames |-> <<lastOp.frame_info>>]
           /\ CompletedOf(e) = {}

\* C7 amended: ... the frame list is [the frame metadata] when non-empty
\* frame metadata is passed, and empty when it is omitted (None) or empty.
C7_EngagedOpensSession ==
    \A e \in CatNames : \A a \in {EATING, DRINKING} :
        (ReportedOnce(e, a) /\ ~Has(pre, e))
        => /\ Has(sessions, e)
           /\ Get(sessions, e) =
                 [cat_name |-> e, activity |-> a,
                  started_at |-> lastOp.timestamp, last_seen_at |-> lastOp.timestamp,
                  frames |-> IF lastOp.frame_info \in {NoFrameInfo, EmptyDict}
                             THEN <<>> ELSE <<lastOp.frame_info>>]
           /\ CompletedOf(e) = {}

\* a session opened without frame metadata, at a timestamp above zero
C7_Witness ==
    \E e \in CatNames :
        /\ ReportedOnce(e, EATING) /\ ~Has(pre, e)
        /\ lastOp.frame_info = NoFrameInfo
        /\ lastOp.timestamp > 0
        /\ Has(sessions, e) /\ Get(sessions, e).frames = <<>>

\* C8 as stated: an observation of the open session's own activity sets
\* last_seen_at to the timestamp and appends the frame metadata, leaves
\* started_at and activity as they were, and completes no session.
C8_AsClaimed ==
    \A e \in CatNames :
        (Has(pre, e) /\ ReportedOnce(e, Get(pre, e).activity))
        => /\ Has(sessions, e)
           /\ Get(sessions, e) =
                 [Get(pre, e) EXCEPT !.last_seen_at = lastOp.timestamp,
                                     !.frames = Append(@, lastOp.frame_info)]
           /\ CompletedOf(e) = {}

\* C8 amended: ... appends the frame metadata when it is non-empty, and
\* leaves the frame list as it was when it is omitted (None) or empty.
C8_SameActivityContinues ==
    \A e \in CatNames :
        (Has(pre, e) /\ ReportedOnce(e, Get(pre, e).activity))
        => /\ Has(sessions, e)
           /\ Get(sessions, e) =
                 [Get(pre, e) EXCEPT !.last_seen_at = lastOp.timestamp,
                                     !.frames = IF lastOp.frame_info \in {NoFrameInfo, EmptyDict}
                                                THEN @ ELSE Append(@, lastOp.frame_info)]
           /\ CompletedOf(e) = {}

\* a later observation of the same activity appends its frame
C8_Witness ==
    \E e \in CatNames :
        /\ Has(pre, e) /\ ReportedOnce(e, Get(pre, e).activity)
        /\ lastOp.frame_info = "f1"
        /\ Has(sessions, e)
        /\ Get(sessions, e).last_seen_at > Get(pre, e).last_seen_at
        /\ Len(Get(sessions, e).frames) = Len(Get(pre, e).frames) + 1

\* C9: on_analysis leaves an entity its observation does not name as it
\* was: same open session if it had one, none if it had none, none returned.
C9_AbsentEntitiesUntouched ==
    \A e \in CatNames :
        (Called("on_analysis") /\ Listed(e) = {})
        => /\ Has(sessions, e) <=> Has(pre, e)
           /\ Has(pre, e) => Get(sessions, e) = Get(pre, e)
           /\ CompletedOf(e) = {}

\* an observation of one entity only, later than the other's open session
C9_Witness ==
    \E e \in CatNames :
        /\ Called("on_analysis") /\ Listed(e) = {} /\ lastOp.cats # <<>>
        /\ Has(pre, e) /\ Has(sessions, e)
        /\ Get(pre, e).last_seen_at < lastOp.timestamp

\* C10: under nondecreasing timestamps every open session and every
\* returned session has started_at <= last_seen_at.
C10_DurationNonNegative ==
    /\ \A i \in 1..Len(sessions) : sessions[i].val.started_at <= sessions[i].val.last_seen_at
    /\ \A i \in 1..Len(completed) : completed[i].started_at <= completed[i].last_seen_at

\* a session of positive duration is returned
C10_Witness ==
    \E i \in 1..Len(completed) : completed[i].started_at < completed[i].last_seen_at

\* --------------------------------------------------------------- replay()
\* the cooldown argument of replay(), in ticks
Cooldown == 1

\* the number of lines of gallery_meta.jsonl
MaxRecords == 3

\* the largest limit argument
MaxLimit == 2

\* `e.get("motion_score", 0) > 5000`
MotionThreshold == 5000

MotionScores == {MotionThreshold, MotionThreshold + 1}

\* capture instants: all later than the first cooldown window after
\* last_call = 0.0, and spanning more than one cooldown
FirstCapture == Cooldown + 1

LastCapture == FirstCapture + Cooldown + 1

ArchiveTime == FirstCapture..LastCapture

\* the UTC offsets a capture host may write its timestamps with
Offsets == {0, 1}

\* an ISO-8601 timestamp text: the local date-time followed by the offset
IsoFormat(instant, offset) == [local |-> instant + offset, offset |-> offset]

\* datetime.fromisoformat(text).timestamp()
FromIso(text) == text.local - text.offset

\* str < str on two timestamp texts: the date-time part comes first
TextLess(a, b) == a.local < b.local \/ (a.local = b.local /\ a.offset < b.offset)

FrameNames == <<"f1", "f2", "f3", "f4", "f5", "f6">>

\* the idle_timeout argument of replay(): a session survives one cooldown
\* gap and no longer one
ReplayIdleTimeout == Cooldown

\* float("inf"): exceeds every timestamp by more than the timeout
Infinity == LastCapture + ReplayIdleTimeout + 1

\* what analyze_frame can return for one frame
ReplayCatLists == SeqsUpTo(CatActivity, 1)

\* the lines of an archive written by one host: line i names frame i
ArchiveOf(n, f, offset) ==
    [i \in 1..n |-> [timestamp |-> IsoFormat(f[i][1], offset),
                     motion_score |-> f[i][2],
                     filename |-> FrameNames[i]]]

\* `if e.get("motion_score", 0) > 5000: entries.append(e)`
IsMotionFrame_AtThreshold(e) == e.motion_score >= MotionThreshold

IsMotionFrame(e) == e.motion_score > MotionThreshold

RECURSIVE MotionFrames(_)
MotionFrames(lines) ==
    IF lines = <<>> THEN <<>>
    ELSE IF IsMotionFrame(Head(lines))
         THEN <<Head(lines)>> \o MotionFrames(Tail(lines))
         ELSE MotionFrames(Tail(lines))

\* entries.sort(key=lambda e: e["timestamp"]): stable, on the text
RECURSIVE InsertByTimestamp(_, _)
InsertByTimestamp(s, e) ==
    IF s = <<>> THEN <<e>>
    ELSE IF TextLess(e.timestamp, Head(s).timestamp)
         THEN <<e>> \o s
         ELSE <<Head(s)>> \o InsertByTimestamp(Tail(s), e)

SortByTimestamp_None(s) == s

RECURSIVE SortByTimestamp(_)
SortByTimestamp(s) ==
    IF s = <<>> THEN <<>>
    ELSE InsertByTimestamp(SortByTimestamp(SubSeq(s, 1, Len(s) - 1)), s[Len(s)])

\* `if limit > 0: entries = entries[:limit]`
ApplyLimit(s, n) ==
    IF n > 0 THEN SubSeq(s, 1, IF n < Len(s) THEN n ELSE Len(s)) ELSE s

LoadResult_LimitFirst(lines, n) == SortByTimestamp(ApplyLimit(MotionFrames(lines), n))

LoadResult(lines, n) == ApplyLimit(SortByTimestamp(MotionFrames(lines)), n)

\* `if (ts - last_call) < cooldown: continue`
InCooldown_Inclusive(ts, last) == (ts - last) <= Cooldown

InCooldown(ts, last) == (ts - last) < Cooldown

\* `last_call = ts`, before the try
NextLastCall_Stale(ts, last) == last

NextLastCall(ts, last) == ts

\* `completed = tracker.check_idle(now=ts)`, first in the loop body
IdleCheckAt_Skipped(d, ts, timeout) == [sessions |-> d, completed |-> <<>>]

\* the idle check taken at the time of the last call instead of the frame's
IdleCheckAt_Stale(d, ts, timeout) == CheckIdleResult(d, last_call, timeout)

IdleCheckAt(d, ts, timeout) == CheckIdleResult(d, ts, timeout)

\* `tracker.check_idle(now=float("inf"))`
FlushNow_LastFrame(lastTs) == lastTs

FlushNow(lastTs) == Infinity

\* the timestamp of the latest call of analyze_frame (0.0 before the first)
PrevCall == IF calls = <<>> THEN 0 ELSE calls[Len(calls)].timestamp

\* a session as the run's report identifies it
Ident(session) ==
    [cat_name |-> session.cat_name, activity |-> session.activity,
     started_at |-> session.started_at]

RECURSIVE Idents(_)
Idents(ss) == IF ss = <<>> THEN <<>> ELSE <<Ident(Head(ss))>> \o Idents(Tail(ss))

RECURSIVE Vals(_)
Vals(d) == IF d = <<>> THEN <<>> ELSE <<Head(d).val>> \o Vals(Tail(d))

InSeq(x, q) == \E i \in 1..Len(q) : q[i] = x

\* the sessions an on_analysis call created: in its result, not there before
NewlyOpened(before, r) ==
    LET old == Idents(Vals(before))
        IsNew(x) == ~InSeq(x, old)
    IN  SelectSeq(Idents(r.completed \o Vals(r.sessions)), IsNew)

InitReplay ==
    /\ idle_timeout = ReplayIdleTimeout
    /\ sessions = <<>>
    /\ completed = <<>>
    /\ lastOp = NoCall
    /\ pre = <<>>
    /\ clock = 0
    /\ pc = "load"
    /\ seen = [e \in CatNames |-> -1]
    /\ \E n \in 0..MaxRecords, offset \in Offsets :
          \E f \in [1..n -> ArchiveTime \X MotionScores] :
             archive = ArchiveOf(n, f, offset)
    /\ limit \in 0..MaxLimit
    /\ entries = <<>>
    /\ idx = 0
    /\ last_call = 0
    /\ errors = 0
    /\ all_completed = <<>>
    /\ calls = <<>>
    /\ opened = <<>>

\* read gallery_meta.jsonl, keep the motion frames, sort, apply the limit
LoadEntries ==
    /\ pc = "load"
    /\ entries' = LoadResult(archive, limit)
    /\ pc' = "setup"
    /\ UNCHANGED <<trackerVars, seen, archive, limit, idx, last_call, errors,
                   all_completed, calls, opened>>

\* the analyzer and the tracker are created and the counters reset; the
\* lines of the file are not used again
Setup ==
    /\ pc = "setup"
    /\ pc' = "frame"
    /\ archive' = <<>>
    /\ idx' = 1
    /\ sessions' = <<>>
    /\ all_completed' = <<>>
    /\ last_call' = 0
    /\ errors' = 0
    /\ UNCHANGED <<idle_timeout, completed, lastOp, pre, clock, seen, limit,
                   entries, calls, opened>>

\* the entry's image is not on disk: `continue`
SkipMissing ==
    /\ pc = "frame"
    /\ idx <= Len(entries)
    /\ idx' = idx + 1
    /\ lastOp' = [op |-> "missing", timestamp |-> FromIso(entries[idx].timestamp),
                  cats |-> <<>>, frame_info |-> entries[idx].filename]
    /\ pre' = sessions
    /\ completed' = <<>>
    /\ UNCHANGED <<idle_timeout, sessions, clock, pc, seen, archive, limit, entries,
                   last_call, errors, all_completed, calls, opened>>

\* the head of the loop body for an entry whose image exists: the idle check
\* at the frame's timestamp, then the cooldown test
BeginFrame ==
    /\ pc = "frame"
    /\ idx <= Len(entries)
    /\ LET ts == FromIso(entries[idx].timestamp)
           r == IdleCheckAt(sessions, ts, idle_timeout)
       IN  /\ sessions' = r.sessions
           /\ completed' = r.completed
           /\ all_completed' = all_completed \o r.completed
           /\ lastOp' = [op |-> "check_idle", timestamp |-> ts,
                         cats |-> <<>>, frame_info |-> entries[idx].filename]
           /\ pre' = sessions
           /\ clock' = Max(clock, ts)
           /\ IF InCooldown(ts, last_call)
              THEN /\ idx' = idx + 1
                   /\ UNCHANGED <<pc, last_call>>
              ELSE /\ last_call' = NextLastCall(ts, last_call)
                   /\ pc' = "analyze"
                   /\ UNCHANGED idx
    /\ UNCHANGED <<idle_timeout, seen, archive, limit, entries, errors, calls, opened>>

\* analyze_frame returned `cats`: the observation is applied
Classified(cats) ==
    /\ pc = "analyze"
    /\ LET ts == FromIso(entries[idx].timestamp)
           frame_info == entries[idx].filename
           r == OnAnalysisResult(sessions, cats, ts, frame_info)
       IN  /\ sessions' = r.sessions
           /\ completed' = r.completed
           /\ all_completed' = all_completed \o r.completed
           /\ lastOp' = [op |-> "on_analysis", timestamp |-> ts,
                         cats |-> cats, frame_info |-> frame_info]
           /\ opened' = opened \o NewlyOpened(sessions, r)
           /\ calls' = Append(calls, [timestamp |-> ts, filename |-> frame_info,
                                       ok |-> TRUE, cats |-> cats])
    /\ pre' = sessions
    /\ idx' = idx + 1
    /\ pc' = "frame"
    /\ UNCHANGED <<idle_timeout, clock, seen, archive, limit, entries, last_call, errors>>

\* `except Exception`: the frame is counted and dropped
FailureStep(newErrors, newLastCall) ==
    /\ pc = "analyze"
    /\ errors' = newErrors
    /\ last_call' = newLastCall
    /\ calls' = Append(calls, [timestamp |-> FromIso(entries[idx].timestamp),
                                filename |-> entries[idx].filename, ok |-> FALSE,
                                cats |-> <<>>])
    /\ lastOp' = [op |-> "failed", timestamp |-> FromIso(entries[idx].timestamp),
                  cats |-> <<>>, frame_info |-> entries[idx].filename]
    /\ completed' = <<>>
    /\ idx' = idx + 1
    /\ pc' = "frame"
    /\ UNCHANGED <<idle_timeout, sessions, pre, clock, seen, archive, limit, entries,
                   all_completed, opened>>

ClassifyFailed_Rollback == FailureStep(errors + 1, PrevCall)

ClassifyFailed_NoCount == FailureStep(errors, last_call)

\* analyze_frame raised: `errors += 1`
ClassifyFailed == FailureStep(errors + 1, last_call)

\* after the last entry: tracker.check_idle(now=float("inf"))
Flush ==
    /\ pc = "frame"
    /\ idx > Len(entries)
    /\ LET r == CheckIdleResult(sessions, FlushNow(clock), idle_timeout)
       IN  /\ sessions' = r.sessions
           /\ completed' = r.completed
           /\ all_completed' = all_completed \o r.completed
    /\ lastOp' = [op |-> "check_idle", timestamp |-> FlushNow(clock),
                  cats |-> <<>>, frame_info |-> NoFrameInfo]
    /\ pre' = sessions
    /\ pc' = "done"
    /\ UNCHANGED <<idle_timeout, clock, seen, archive, limit, entries, idx, last_call,
                   errors, calls, opened>>

NextReplay ==
    \/ LoadEntries
    \/ Setup
    \/ SkipMissing
    \/ BeginFrame
    \/ \E cats \in ReplayCatLists : Classified(cats)
    \/ ClassifyFailed
    \/ Flush

SpecReplay == InitReplay /\ [][NextReplay]_vars

\* C11: under nondecreasing timestamps an open session's last_seen_at is the
\* timestamp of the latest observation, engaged or passive, that named its
\* entity; so a session check_idle(now) returns belongs to an entity whose
\* latest observation is more than idle_timeout before now.
C11_IdleMeasuredFromLatestObservation ==
    /\ \A i \in 1..Len(sessions) : sessions[i].val.last_seen_at = seen[sessions[i].key]
    /\ Called("check_idle")
       => \A i \in 1..Len(completed) :
             lastOp.timestamp - seen[completed[i].cat_name] > idle_timeout

\* a session is closed by an idle check after a passive observation had
\* moved its last_seen_at past its start
C11_Witness ==
    /\ Called("check_idle")
    /\ \E i \in 1..Len(completed) :
          /\ completed[i].last_seen_at > completed[i].started_at
          /\ completed[i].last_seen_at = seen[completed[i].cat_name]
          /\ lastOp.timestamp - completed[i].last_seen_at > idle_timeout

\* ------------------------------------------------------- claims on replay()
EntryTs(i) == FromIso(entries[i].timestamp)

\* the frame just handled was skipped by the cooldown test
CooldownSkipped == pc = "frame" /\ lastOp.op = "check_idle"

\* the frame at idx passed the cooldown test and is about to be classified
Attempting == pc = "analyze"

\* C12 as the claim states it: a frame is classified only when the elapsed
\* time since the last attempt is strictly greater than the cooldown, and
\* skipped when it is equal or less.
C12_AsClaimed ==
    /\ Attempting => EntryTs(idx) - PrevCall > Cooldown
    /\ CooldownSkipped => lastOp.timestamp - last_call <= Cooldown

\* C12: a frame is classified only when the elapsed time since the last
\* attempt is at least the cooldown, and only then last_call becomes its
\* timestamp; a frame with a strictly smaller elapsed time is skipped and
\* last_call stays the timestamp of the last attempt.
C12_ClassifiedOnceCooldownElapsed ==
    /\ Attempting => /\ EntryTs(idx) - PrevCall >= Cooldown
                     /\ last_call = EntryTs(idx)
    /\ CooldownSkipped => /\ lastOp.timestamp - last_call < Cooldown
                          /\ last_call = PrevCall

\* a frame exactly one cooldown after the previous attempt is classified
C12_Witness ==
    /\ Attempting
    /\ calls # <<>>
    /\ EntryTs(idx) - PrevCall = Cooldown
    /\ last_call = EntryTs(idx)

\* C13: a failed attempt leaves last_call at its frame's timestamp, so the
\* next attempt after a failure is at least a cooldown later, as after a
\* success.
C13_FailureConsumesCooldown ==
    /\ lastOp.op = "failed" => last_call = lastOp.timestamp
    /\ (Attempting /\ calls # <<>>) => EntryTs(idx) - PrevCall >= Cooldown
    /\ (CooldownSkipped /\ calls # <<>> /\ ~calls[Len(calls)].ok)
          => last_call = calls[Len(calls)].timestamp

\* a frame closer than the cooldown to a failed attempt is skipped
C13_Witness ==
    /\ CooldownSkipped
    /\ calls # <<>>
    /\ ~calls[Len(calls)].ok
    /\ lastOp.timestamp >= PrevCall
    /\ lastOp.timestamp - PrevCall < Cooldown

\* C14: the frame timestamps of any two calls of analyze_frame in one run
\* are at least a cooldown apart.
C14_CallsSpacedByCooldown ==
    \A i, j \in 1..Len(calls) :
       i < j => calls[j].timestamp - calls[i].timestamp >= Cooldown

\* two calls, with a motion frame between them that was not classified
C14_Witness ==
    /\ Len(calls) = 2
    /\ \E k \in 1..Len(entries) :
          /\ k < idx
          /\ \A c \in 1..Len(calls) : calls[c].filename # entries[k].filename
          /\ EntryTs(k) >= calls[1].timestamp
          /\ EntryTs(k) <= calls[2].timestamp

\* the file names of a list of records
RECURSIVE FileNames(_)
FileNames(q) == IF q = <<>> THEN {} ELSE {Head(q).filename} \cup FileNames(Tail(q))

\* C15: after loading, entries holds only archive lines whose motion_score
\* is strictly above the threshold; every frame sent to classification is
\* one of entries, and last_call is 0 or the timestamp of such a frame.
C15_OnlyMotionFramesProcessed ==
    /\ \A i \in 1..Len(entries) : entries[i].motion_score > MotionThreshold
    /\ pc = "setup"
       => /\ \A i \in 1..Len(entries) : InSeq(entries[i], archive)
          /\ \A i \in 1..Len(archive) :
                archive[i].motion_score <= MotionThreshold
                   => archive[i].filename \notin FileNames(entries)
    /\ \A c \in 1..Len(calls) : calls[c].filename \in FileNames(entries)
    /\ \/ last_call = 0
       \/ \E i \in 1..Len(entries) : last_call = EntryTs(i)

\* the archive holds a line exactly at the threshold and a line above it; the
\* first is dropped, the second kept
C15_Witness ==
    /\ pc = "setup"
    /\ entries # <<>>
    /\ \E i \in 1..Len(archive) :
          /\ archive[i].motion_score = MotionThreshold
          /\ archive[i].filename \notin FileNames(entries)

\* C16: after a failed call the tracker is as the frame's idle check left it,
\* nothing was reported for the frame, errors counts the failed calls, no
\* frame is passed to analyze_frame twice, and the loop is at the next frame.
C16_FailureDropsFrame ==
    /\ lastOp.op = "failed"
       => /\ sessions = IdleCheckAt(pre, lastOp.timestamp, idle_timeout).sessions
          /\ completed = <<>>
          /\ pc = "frame"
          /\ idx > 1
          /\ entries[idx - 1].filename = lastOp.frame_info
          /\ \A i \in 1..Len(sessions) :
                lastOp.frame_info \notin
                   {sessions[i].val.frames[k] : k \in 1..Len(sessions[i].val.frames)}
    /\ errors = Cardinality({c \in 1..Len(calls) : ~calls[c].ok})
    /\ \A c, d \in 1..Len(calls) : c # d => calls[c].filename # calls[d].filename

\* a call failed while a session was open, and another frame follows
C16_Witness ==
    /\ lastOp.op = "failed"
    /\ sessions # <<>>
    /\ errors = 1
    /\ idx <= Len(entries)

IsSuffix(q, all) ==
    /\ Len(q) <= Len(all)
    /\ SubSeq(all, Len(all) - Len(q) + 1, Len(all)) = q

NoneExpiredAt(d, ts) ==
    \A i \in 1..Len(d) : ~((ts - d[i].val.last_seen_at) > idle_timeout)

\* C17: when a frame reaches the cooldown test, check_idle at its timestamp
\* has been applied and its sessions reported, whether the frame is then
\* skipped or classified; the observation is applied to a tracker holding no
\* session idle at that timestamp, and what it completes is reported after
\* what the frame's idle check closed.
C17_IdleCheckBeforeObservation ==
    /\ []((Attempting \/ CooldownSkipped)
            => /\ lastOp.op = "check_idle"
               /\ sessions = CheckIdleResult(pre, lastOp.timestamp, idle_timeout).sessions
               /\ completed = CheckIdleResult(pre, lastOp.timestamp, idle_timeout).completed
               /\ IsSuffix(completed, all_completed))
    /\ [](lastOp.op = "on_analysis" => NoneExpiredAt(pre, lastOp.timestamp))
    /\ [][(Attempting /\ lastOp'.op = "on_analysis")
            => /\ lastOp'.timestamp = lastOp.timestamp
               /\ IsSuffix(completed, all_completed)
               /\ all_completed' = all_completed \o completed']_vars

\* one frame's idle check closed a session and its observation completed
\* another: the idle-closed one comes first in the report
C17_Witness ==
    /\ lastOp.op = "on_analysis"
    /\ Len(completed) = 1
    /\ Len(all_completed) >= 2
    /\ all_completed[Len(all_completed)] = completed[1]
    /\ LET s == all_completed[Len(all_completed) - 1]
       IN  /\ s.cat_name # completed[1].cat_name
           /\ lastOp.timestamp - s.last_seen_at = idle_timeout + 1

\* C18: once the feed has stalled, the sweeper's idle checks on an advancing
\* clock eventually empty the open map, which then stays empty; a session
\* leaves the map after the stall only as a result of the idle check that
\* closed it.
C18_StallEventuallyDrains ==
    /\ (pc = "stalled") ~> [](sessions = <<>>)
    /\ [][pc = "stalled"
           => \A i \in 1..Len(sessions) :
                 \/ Has(sessions', sessions[i].key)
                 \/ \E j \in 1..Len(completed') : completed'[j] = sessions[i].val]_vars

\* the feed has stalled with sessions open and the sweeper has closed the
\* last of them
C18_Witness ==
    /\ pc = "stalled"
    /\ Called("check_idle")
    /\ pre # <<>>
    /\ completed # <<>>
    /\ sessions = <<>>

\* the archive lines that pass the motion filter
Qualifying == {i \in 1..Len(archive) : archive[i].motion_score > MotionThreshold}

\* C19: when the run is done the tracker holds no session, the last call was
\* the idle check at infinity, and every session the tracker opened is in
\* all_completed, once.
C19_FinishedRunReportsEverySession ==
    /\ pc = "done"
       => /\ sessions = <<>>
          /\ lastOp.op = "check_idle"
          /\ lastOp.timestamp = Infinity
          /\ Len(all_completed) = Len(opened)
          /\ \A i \in 1..Len(opened) : InSeq(opened[i], Idents(all_completed))
    /\ pc \in {"frame", "analyze", "done"}
       => Len(opened) = Len(all_completed) + Len(sessions)

\* the final idle check closed a session that was still open after the last
\* frame, another having been completed before
C19_Witness ==
    /\ pc = "done"
    /\ completed # <<>>
    /\ Len(all_completed) > Len(completed)
    /\ sessions = <<>>

C22_EmittedOnceAndImmutable ==
    /\ [](\A i, j \in 1..Len(all_completed) :
             i # j => Ident(all_completed[i]) # Ident(all_completed[j]))
    /\ [](\A i \in 1..Len(all_completed) : \A k \in 1..Len(sessions) :
             Ident(sessions[k].val) # Ident(all_completed[i]))
    /\ [](\A j \in 1..Len(completed) : InSeq(completed[j], all_completed))
    /\ [][(pc \in {"frame", "analyze"})
            => /\ Len(all_completed') >= Len(all_completed)
               /\ all_completed = SubSeq(all_completed', 1, Len(all_completed))]_vars

\* an entity whose session was emitted has a new open session, and the
\* report holds two sessions
C22_Witness ==
    /\ lastOp.op = "on_analysis"
    /\ Len(all_completed) >= 2
    /\ \E i \in 1..Len(all_completed) : Has(sessions, all_completed[i].cat_name)

\* C23: every open session and every returned session has activity eating
\* or drinking, never present.
C23_SessionsAreEngaged ==
    /\ \A i \in 1..Len(sessions) : sessions[i].val.activity \in {EATING, DRINKING}
    /\ \A j \in 1..Len(completed) : completed[j].activity \in {EATING, DRINKING}

\* a call reported one entity as present, which keeps its open session, and
\* completed a session of another
C23_Witness ==
    /\ completed # <<>>
    /\ \E e \in CatNames :
          /\ ReportedPassive(e)
          /\ Has(pre, e)
          /\ Has(sessions, e)
          /\ Get(sessions, e).activity # PRESENT

\* C24: a call at timestamp t that reports E once with an engaged activity
\* other than that of E's open session returns that session with every
\* field as it was before the call, last_seen_at included, and leaves E with
\* a session of the new activity whose started_at and last_seen_at are t.
C24_ChangeKeepsOldLastSeen ==
    \A e \in CatNames : \A b \in {EATING, DRINKING} :
        (ReportedOnce(e, b) /\ Has(pre, e) /\ Get(pre, e).activity # b)
        => /\ \A i \in CompletedOf(e) : completed[i] = Get(pre, e)
           /\ CompletedOf(e) # {}
           /\ Has(sessions, e)
           /\ Get(sessions, e).started_at = lastOp.timestamp
           /\ Get(sessions, e).last_seen_at = lastOp.timestamp
           /\ Get(sessions, e).cat_name = e

\* the activity changes at a timestamp later than the old session's
\* last_seen_at
C24_Witness ==
    \E e \in CatNames :
        /\ ReportedOnce(e, EATING)
        /\ Has(pre, e)
        /\ Get(pre, e).activity = DRINKING
        /\ Get(pre, e).last_seen_at < lastOp.timestamp
        /\ \E i \in CompletedOf(e) : completed[i].last_seen_at < lastOp.timestamp
        /\ Get(sessions, e).started_at = lastOp.timestamp

\* the orderings of a list
Orderings(q) ==
    {[i \in 1..Len(q) |-> q[f[i]]] :
        f \in {g \in [1..Len(q) -> 1..Len(q)] :
                  \A i, j \in 1..Len(q) : i # j => g[i] # g[j]}}

\* an open map as a set of (key, session) pairs, a list as a set
AsMap(d) == {<<d[i].key, d[i].val>> : i \in 1..Len(d)}

AsSet(q) == {q[i] : i \in 1..Len(q)}

DistinctNames(cats) == \A i, j \in 1..Len(cats) : i # j => cats[i].name # cats[j].name

\* C25: for an observation naming pairwise distinct entities, every ordering
\* of its entries gives the same open map and the same set of completed
\* sessions, and each entity's open session and completed sessions are those
\* the observation of that entity alone gives.
C25_EntitiesIndependent ==
    (Called("on_analysis") /\ DistinctNames(lastOp.cats))
    => /\ \A q \in Orderings(lastOp.cats) :
             LET r == OnAnalysisResult(pre, q, lastOp.timestamp, lastOp.frame_info)
             IN  /\ AsMap(r.sessions) = AsMap(sessions)
                 /\ AsSet(r.completed) = AsSet(completed)
                 /\ Len(r.completed) = Len(completed)
       /\ \A i \in 1..Len(lastOp.cats) :
             LET e == lastOp.cats[i].name
                 r == OnAnalysisResult(pre, <<lastOp.cats[i]>>, lastOp.timestamp,
                                       lastOp.frame_info)
             IN  /\ Has(r.sessions, e) <=> Has(sessions, e)
                 /\ Has(sessions, e) => Get(r.sessions, e) = Get(sessions, e)
                 /\ AsSet(r.completed) = {completed[j] : j \in CompletedOf(e)}

\* one observation changes the activity of one entity and opens a session
\* for another
C25_Witness ==
    /\ Called("on_analysis")
    /\ Len(lastOp.cats) = 2
    /\ DistinctNames(lastOp.cats)
    /\ Len(pre) = 1
    /\ Len(sessions) = 2
    /\ Len(completed) = 1

\* the sessions of a run, open or reported
RunSessions == AsSet(Vals(sessions)) \cup AsSet(all_completed)

\* the frames of the observations that opened or continued session s: those
\* classified within its lifetime that report its entity with its activity
ObservedFrames(s) ==
    LET Feeds(c) == /\ c.ok
                    /\ c.timestamp >= s.started_at
                    /\ c.timestamp <= s.last_seen_at
                    /\ \E i \in 1..Len(c.cats) :
                          /\ c.cats[i].name = s.cat_name
                          /\ c.cats[i].activity = s.activity
        fed == SelectSeq(calls, Feeds)
    IN  [k \in 1..Len(fed) |-> fed[k].filename]

\* C26: with frame metadata on every observation, as in replay, a session's
\* frames are, in observation order, the frame of the engaged observation
\* that opened it and of each same-activity observation that continued it,
\* and nothing else.
C26_FramesAreTheSessionsObservations ==
    \A s \in RunSessions :
       /\ s.frames = ObservedFrames(s)
       /\ Len(s.frames) >= 1

\* a session opened by one frame and continued by another, with a passive
\* observation of its entity between them
C26_Witness ==
    \E s \in RunSessions :
       /\ Len(s.frames) = 2
       /\ \E c \in 1..Len(calls) :
             /\ calls[c].ok
             /\ calls[c].cats = <<[name |-> s.cat_name, activity |-> PRESENT]>>
             /\ calls[c].timestamp > s.started_at
             /\ calls[c].timestamp < s.last_seen_at

\* the sessions of entity e in the order they were opened: the reported
\* ones, then the open one
History(e) ==
    LET IsOfE(x) == x.cat_name = e
    IN  SelectSeq(all_completed, IsOfE)
           \o (IF Has(sessions, e) THEN <<Get(sessions, e)>> ELSE <<>>)

\* C27: under nondecreasing timestamps, of two sessions of one entity the
\* earlier one was last seen no later than the later one started.
C27_SessionsDoNotOverlap ==
    \A e \in CatNames :
       \A i, j \in 1..Len(History(e)) :
          i < j => History(e)[i].last_seen_at <= History(e)[j].started_at

\* a session that lasted from one timestamp to a later one is followed by
\* another session of its entity
C27_Witness ==
    \E e \in CatNames :
       /\ Len(History(e)) >= 2
       /\ History(e)[1].started_at < History(e)[1].last_seen_at
       /\ History(e)[1].last_seen_at <= History(e)[2].started_at

\* C28: under nondecreasing timestamps, when two consecutive sessions of one
\* entity have the same activity, the later one starts more than
\* idle_timeout after the earlier one was last seen.
C28_SameActivityNeedsIdleGap ==
    \A e \in CatNames :
       \A i \in 1..Len(History(e)) :
          (i < Len(History(e)) /\ History(e)[i].activity = History(e)[i + 1].activity)
          => History(e)[i + 1].started_at - History(e)[i].last_seen_at > idle_timeout

\* an idle check closed a session and the entity was seen again with the
\* same activity
C28_Witness ==
    \E e \in CatNames :
       /\ Len(History(e)) >= 2
       /\ History(e)[1].activity = History(e)[2].activity
       /\ History(e)[2].started_at - History(e)[1].last_seen_at > idle_timeout
       /\ Has(sessions, e)

\* the entities an observation reports with an engaged activity
NamedEngaged(cats) ==
    {cats[i].name : i \in {k \in 1..Len(cats) : cats[k].activity \in {EATING, DRINKING}}}

\* C29: in replay, an observation at ts that advances the last_seen_at of a
\* session it found open does so over a gap of at most idle_timeout; and
\* when a frame reports, with an engaged activity, an entity whose session
\* was last seen more than idle_timeout before ts, the frame's idle check has
\* closed that session and the observation opens a new one at ts.
C29_NoExtensionAcrossIdleGap ==
    /\ [](lastOp.op = "on_analysis"
            => \A e \in Keys(pre) \cap Keys(sessions) :
                  (/\ Ident(Get(sessions, e)) = Ident(Get(pre, e))
                   /\ Get(sessions, e).last_seen_at # Get(pre, e).last_seen_at)
                  => lastOp.timestamp - Get(pre, e).last_seen_at <= idle_timeout)
    /\ [][(Attempting /\ lastOp'.op = "on_analysis")
            => \A e \in NamedEngaged(lastOp'.cats) \cap Keys(pre) :
                  (lastOp.timestamp - Get(pre, e).last_seen_at > idle_timeout)
                  => /\ InSeq(Get(pre, e), completed)
                     /\ ~Has(sessions, e)
                     /\ Has(sessions', e)
                     /\ Get(sessions', e).started_at = lastOp'.timestamp]_vars

\* an entity is seen eating again after a gap longer than idle_timeout: its
\* old session is in the report and its open session starts at this frame
C29_Witness ==
    /\ lastOp.op = "on_analysis"
    /\ \E e \in NamedEngaged(lastOp.cats) :
          /\ ~Has(pre, e)
          /\ Has(sessions, e)
          /\ Get(sessions, e).started_at = lastOp.timestamp
          /\ all_completed # <<>>
          /\ LET s == all_completed[Len(all_completed)]
             IN  /\ s.cat_name = e
                 /\ s.activity = Get(sessions, e).activity
                 /\ lastOp.timestamp - s.last_seen_at > idle_timeout

\* the call lists entity e twice and nothing else: first with a, then with b
ListedTwice(e, a, b) ==
    /\ Called("on_analysis")
    /\ lastOp.cats = <<[name |-> e, activity |-> a], [name |-> e, activity |-> b]>>

\* the session an engaged entry creates at the call's timestamp
Fresh(e, a) ==
    [cat_name |-> e, activity |-> a,
     started_at |-> lastOp.timestamp, last_seen_at |-> lastOp.timestamp,
     frames |-> IF lastOp.frame_info \in {NoFrameInfo, EmptyDict}
                THEN <<>> ELSE <<lastOp.frame_info>>]

\* C30: a call that lists an entity without open session first with engaged
\* activity A and then with another engaged activity B returns exactly the
\* session of A, opened and last seen at the call's timestamp, and leaves
\* the entity with one open session, of B; no entity has two open sessions.
C30_DuplicateEntriesInListOrder ==
    \A e \in CatNames : \A a, b \in {EATING, DRINKING} :
        (a # b /\ ListedTwice(e, a, b) /\ ~Has(pre, e))
        => /\ completed = <<Fresh(e, a)>>
           /\ Cardinality(OpenOf(e)) = 1
           /\ Get(sessions, e) = Fresh(e, b)
           /\ \A o \in CatNames : Cardinality(OpenOf(o)) <= 1
           /\ \A o \in CatNames \ {e} : Has(sessions, o) <=> Has(pre, o)

\* an entity without session is listed as eating, then as drinking, in an
\* observation with frame metadata while another entity has a session
C30_Witness ==
    \E e \in CatNames :
       /\ ListedTwice(e, EATING, DRINKING)
       /\ ~Has(pre, e)
       /\ pre # <<>>
       /\ Truthy(lastOp.frame_info)
       /\ Len(completed) = 1
       /\ completed[1].activity = EATING
       /\ Get(sessions, e).activity = DRINKING

====
